---- MODULE Spec2Model ----
(***************************************************************************)
(* Model of phi/llm/anthropic/claude.py: the Claude adapter's two          *)
(* responders (response, response_stream), the streaming tool-call parser  *)
(* and the recursive tool-use turn loop.                                   *)
(*                                                                         *)
(* Text is a sequence of pieces.  A piece is an indivisible run of         *)
(* characters; a literal the code searches for is a sequence of pieces, so *)
(* a tag can start or end inside a delta or be split across deltas:        *)
(*   "<function_calls>"  is  "<function" "_calls" ">"                      *)
(*   "<invoke"           is  "<invoke"                                     *)
(*   "<invoke>"          is  "<invoke" ">"                                 *)
(*   "</invoke>"         is  "</invoke" ">"                                *)
(*   "</function_calls>" is  one piece (only the program writes it: the    *)
(*                       backend stops before it, stop_sequences)          *)
(* "a" is a word of prose, "\n" is white space, and T1, T2, TX, TE, BAD    *)
(* each stand for the inside of one invocation:                            *)
(* <tool_name>..</tool_name><parameters>..</parameters>.                   *)
(***************************************************************************)
EXTENDS Integers, Sequences, FiniteSets, TLC

\* ------------------------------------------------------------------ bounds

\* Segments of markup or prose the backend emits over one conversation.
MaxSegs == 2

\* The longest message list a caller hands to invoke or invoke_stream.
MaxMessages == 3

\* ------------------------------------------------------------ text helpers

\* Python's None where a name is expected.
NULL == "None"

\* An optional value: None, or the value.
None == <<>>
Some(v) == <<v>>

RECURSIVE Flatten(_)
Flatten(ss) == IF ss = <<>> THEN <<>> ELSE Head(ss) \o Flatten(Tail(ss))

\* pat occurs in text at position i (1-based)
OccursAt(text, pat, i) ==
    /\ i + Len(pat) - 1 <= Len(text)
    /\ \A j \in 1..Len(pat) : text[i + j - 1] = pat[j]

\* Python's `pat in text`
Contains(text, pat) == \E i \in 1..Len(text) : OccursAt(text, pat, i)

\* Python's text.count(pat): non-overlapping occurrences, left to right
RECURSIVE CountFrom(_, _, _)
CountFrom(text, pat, i) ==
    IF i + Len(pat) - 1 > Len(text) THEN 0
    ELSE IF OccursAt(text, pat, i) THEN 1 + CountFrom(text, pat, i + Len(pat))
    ELSE CountFrom(text, pat, i + 1)

Count(text, pat) == CountFrom(text, pat, 1)

\* Python's text.split(pat): the fragments between the occurrences of pat
RECURSIVE SplitFrom(_, _, _, _)
SplitFrom(text, pat, i, cur) ==
    IF i > Len(text) THEN <<cur>>
    ELSE IF OccursAt(text, pat, i)
         THEN <<cur>> \o SplitFrom(text, pat, i + Len(pat), <<>>)
         ELSE SplitFrom(text, pat, i + 1, Append(cur, text[i]))

Split(text, pat) == SplitFrom(text, pat, 1, <<>>)

\* Python's text.strip(): leading and trailing white space removed
RECURSIVE LStrip(_)
LStrip(text) ==
    IF text # <<>> /\ Head(text) = "\n" THEN LStrip(Tail(text)) ELSE text

RECURSIVE RStrip(_)
RStrip(text) ==
    IF text # <<>> /\ text[Len(text)] = "\n"
    THEN RStrip(SubSeq(text, 1, Len(text) - 1)) ELSE text

Strip(text) == RStrip(LStrip(text))

\* Python's text.endswith(">"): the pieces whose last character is ">"
EndsWithGt(text) == text # <<>> /\ text[Len(text)] \in {">", "</function_calls>"}

\* ---------------------------------------------------------------- literals

FunctionCallsOpen == <<"<function", "_calls", ">">>
FunctionCallsClose == <<"</function_calls>">>
InvokeOpenPrefix == <<"<invoke">>
InvokeOpen == <<"<invoke", ">">>
InvokeClose == <<"</invoke", ">">>
FunctionWord == <<"<function">>
Gt == <<">">>
CouldNotFind == <<"Could not find function to call.">>
SomethingWentWrong == <<"Something went wrong, please try again.">>

\* ------------------------------------------------------------ the backend

\* The inside of one invocation: four tool names with their parameters, a
\* fragment the Tag Extractor raises on, and prose with no <tool_name>.
Bodies == {"T1", "T2", "TX", "TE", "BAD", "a"}

\* One invocation as the protocol writes it, on a line of its own.
Invocation(b) == InvokeOpen \o <<b>> \o InvokeClose \o <<"\n">>

\* An invocation cut before its closing tag (the max_tokens limit).
Truncated == InvokeOpen \o <<"T1">>

\* What one segment of a completion can be.
Segments ==
    {<<"a">>, FunctionWord, FunctionCallsOpen, Truncated}
        \cup {Invocation(b) : b \in Bodies}

\* How a completion can start: with nothing, or with prose and then the
\* opening tag.
Leads == {<<>>, <<"a">> \o FunctionCallsOpen}

\* A completion: a lead, then the segments ss.
Completion(lead, ss) == lead \o Flatten(ss)

\* ------------------------------------------------- external collaborators

\* phi.utils.tools.extract_tool_from_xml: the first tool name of the fragment,
\* absent when the fragment has none.
ToolNames == {"T1", "T2", "TX", "TE"}

RECURSIVE FirstToolName(_)
FirstToolName(fragment) ==
    IF fragment = <<>> THEN NULL
    ELSE IF Head(fragment) \in ToolNames THEN Head(fragment)
    ELSE FirstToolName(Tail(fragment))

ExtractorRaises(fragment) == \E i \in 1..Len(fragment) : fragment[i] = "BAD"

extract_tool_from_xml(fragment) == [tool_name |-> FirstToolName(fragment)]

\* The function registry (self.functions): TE is registered, and its
\* arguments fail validation.
Registry == {"T1", "T2", "TE"}

ValidationError == <<"invalid arguments">>

\* phi.utils.tools.get_function_call_for_tool_call
get_function_call_for_tool_call(tool_call) ==
    IF tool_call.name \notin Registry THEN None
    ELSE Some([name |-> tool_call.name,
               error |-> IF tool_call.name = "TE"
                         THEN Some(ValidationError) ELSE None])

\* FunctionCall.get_call_str()
get_call_str(fc) == fc.name \o "()"

\* LLM.run_function_calls(function_calls, role="user"): runs each call in
\* order and returns one result message per call.
run_function_calls(fcs) ==
    [i \in 1..Len(fcs) |->
        [role |-> "user", tool_call_name |-> fcs[i].name,
         content |-> <<"stdout of " \o fcs[i].name>>]]

\* phi.utils.tools.remove_function_calls_from_string: the text without what
\* lies between <function_calls> and </function_calls>, tags included.
RECURSIVE remove_function_calls_from_string(_)
remove_function_calls_from_string(text) ==
    IF Contains(text, FunctionCallsOpen) /\ Contains(text, FunctionCallsClose)
    THEN LET s == CHOOSE i \in 1..Len(text) :
                    /\ OccursAt(text, FunctionCallsOpen, i)
                    /\ \A j \in 1..(i - 1) : ~OccursAt(text, FunctionCallsOpen, j)
             e == CHOOSE i \in 1..Len(text) :
                    /\ OccursAt(text, FunctionCallsClose, i)
                    /\ \A j \in 1..(i - 1) : ~OccursAt(text, FunctionCallsClose, j)
         IN  remove_function_calls_from_string(
                 SubSeq(text, 1, s - 1) \o SubSeq(text, e + 1, Len(text)))
    ELSE text

\* ------------------------------------------------------- parsing a response

ToolCall(tool_call_dict) == [type |-> "function", name |-> tool_call_dict.tool_name]

\* The loop over the fragments that hold an invocation: the calls collected,
\* whether the extractor raised (the loop ends there), and its runs.
RECURSIVE ExtractAll(_)
ExtractAll(fragments) ==
    IF fragments = <<>> THEN [calls |-> <<>>, raised |-> FALSE, runs |-> 0]
    ELSE IF ExtractorRaises(Head(fragments))
         THEN [calls |-> <<>>, raised |-> TRUE, runs |-> 1]
         ELSE LET rest == ExtractAll(Tail(fragments))
              IN  [calls |-> <<ToolCall(extract_tool_from_xml(Head(fragments)))>>
                                 \o rest.calls,
                   raised |-> rest.raised,
                   runs |-> 1 + rest.runs]

\* A plausible slip: the calls collected before the exception are kept.
ToolCallsOfPartial(ex) ==
    IF ex.calls = <<>> THEN None ELSE Some(ex.calls)

\* tool_calls as the try block leaves it: set only when the loop ended without
\* an exception and collected at least one call.
ToolCallsOf(ex) ==
    IF ex.raised \/ ex.calls = <<>> THEN None ELSE Some(ex.calls)

Select(seq, Keep(_)) ==
    LET F[i \in 0..Len(seq)] ==
            IF i = 0 THEN <<>>
            ELSE IF Keep(seq[i]) THEN Append(F[i - 1], seq[i]) ELSE F[i - 1]
    IN  F[Len(seq)]

\* response, the try block: the fragments of response_content.split("</invoke>")
\* that contain "<invoke>".
ResponseFragments(response_content) ==
    LET HasInvoke(f) == Contains(f, InvokeOpen)
    IN  Select(Split(response_content, InvokeClose), HasInvoke)

\* A plausible slip: the closing tag is added to any content.
ResponseParseAlwaysCloses(response_content) ==
    IF response_content = None
    THEN [content |-> None, tool_calls |-> None, runs |-> 0, raised |-> FALSE]
    ELSE LET ex == IF Contains(response_content[1], FunctionCallsOpen)
                   THEN ExtractAll(ResponseFragments(response_content[1]))
                   ELSE [calls |-> <<>>, raised |-> FALSE, runs |-> 0]
         IN  [content |-> Some(response_content[1] \o FunctionCallsClose),
              tool_calls |-> ToolCallsOf(ex), runs |-> ex.runs,
              raised |-> ex.raised]

\* response: the assistant message's content and tool_calls after the try block.
ResponseParse(response_content) ==
    IF response_content = None
    THEN [content |-> None, tool_calls |-> None, runs |-> 0, raised |-> FALSE]
    ELSE IF ~Contains(response_content[1], FunctionCallsOpen)
    THEN [content |-> response_content, tool_calls |-> None, runs |-> 0,
          raised |-> FALSE]
    ELSE LET ex == ExtractAll(ResponseFragments(response_content[1]))
         IN  [content |-> Some(response_content[1] \o FunctionCallsClose),
              tool_calls |-> ToolCallsOf(ex), runs |-> ex.runs,
              raised |-> ex.raised]

\* A plausible slip: the closing tag is added whenever the opening tag occurs.
StreamCloseWhenPresent(assistant_message_content) ==
    IF Count(assistant_message_content, FunctionCallsOpen) >= 1
    THEN assistant_message_content \o FunctionCallsClose
    ELSE assistant_message_content

\* response_stream, after the feed: the closing tag is added when the opening
\* tag occurs exactly once.
StreamClose(assistant_message_content) ==
    IF Count(assistant_message_content, FunctionCallsOpen) = 1
    THEN assistant_message_content \o FunctionCallsClose
    ELSE assistant_message_content

\* response_stream, the try block: every fragment but those equal to the last
\* gets its "</invoke>" back; the ones holding both tags are extracted.
StreamFragments(assistant_message_content) ==
    LET frs == Split(assistant_message_content, InvokeClose)
        last == frs[Len(frs)]
        back == [i \in 1..Len(frs) |->
                    IF frs[i] # last THEN frs[i] \o InvokeClose ELSE frs[i]]
        Whole(f) == Contains(f, InvokeOpen) /\ Contains(f, InvokeClose)
    IN  Select(back, Whole)

StreamParse(assistant_message_content, tool_calls_in_response) ==
    IF /\ tool_calls_in_response > 0
       /\ Contains(assistant_message_content, InvokeOpen)
       /\ Contains(assistant_message_content, InvokeClose)
    THEN LET ex == ExtractAll(StreamFragments(assistant_message_content))
         IN  [content |-> Some(assistant_message_content),
              tool_calls |-> ToolCallsOf(ex), runs |-> ex.runs,
              raised |-> ex.raised]
    ELSE [content |-> Some(assistant_message_content), tool_calls |-> None,
          runs |-> 0, raised |-> FALSE]

\* ------------------------------------------------------------ the turn loop

\* A Message: time is metrics["time"], absent until it is set.
Message(role, content, tool_calls) ==
    [role |-> role, content |-> content, tool_calls |-> tool_calls,
     time |-> None]

\* A plausible slip: the `continue` after the error message is missing, so a
\* call that resolved with an error is run all the same.
RECURSIVE ResolveAllNoContinue(_)
ResolveAllNoContinue(tool_calls) ==
    IF tool_calls = <<>> THEN [appended |-> <<>>, to_run |-> <<>>]
    ELSE LET fc == get_function_call_for_tool_call(Head(tool_calls))
             rest == ResolveAllNoContinue(Tail(tool_calls))
         IN  IF fc = None
             THEN [appended |-> <<Message("user", Some(CouldNotFind), None)>>
                                    \o rest.appended,
                   to_run |-> rest.to_run]
             ELSE IF fc[1].error # None
             THEN [appended |-> <<Message("user", fc[1].error, None)>>
                                    \o rest.appended,
                   to_run |-> <<fc[1]>> \o rest.to_run]
             ELSE [appended |-> rest.appended,
                   to_run |-> <<fc[1]>> \o rest.to_run]

\* The loop over assistant_message.tool_calls: the user messages appended for
\* the calls that did not resolve, and function_calls_to_run.
RECURSIVE ResolveAll(_)
ResolveAll(tool_calls) ==
    IF tool_calls = <<>> THEN [appended |-> <<>>, to_run |-> <<>>]
    ELSE LET fc == get_function_call_for_tool_call(Head(tool_calls))
             rest == ResolveAll(Tail(tool_calls))
         IN  IF fc = None
             THEN [appended |-> <<Message("user", Some(CouldNotFind), None)>>
                                    \o rest.appended,
                   to_run |-> rest.to_run]
             ELSE IF fc[1].error # None
             THEN [appended |-> <<Message("user", fc[1].error, None)>>
                                    \o rest.appended,
                   to_run |-> rest.to_run]
             ELSE [appended |-> rest.appended,
                   to_run |-> <<fc[1]>> \o rest.to_run]

\* The "Running: ..." annotation of the calls about to run.
RunningNote(function_calls_to_run, first) ==
    IF Len(function_calls_to_run) = 1
    THEN <<first \o get_call_str(function_calls_to_run[1]) \o "\n\n">>
    ELSE IF Len(function_calls_to_run) > 1
    THEN <<"Running:">>
            \o [i \in 1..Len(function_calls_to_run) |->
                    "\n - " \o get_call_str(function_calls_to_run[i])]
            \o <<"\n\n">>
    ELSE <<>>

\* One <result> block of the envelope.
ResultBlock(fc_message) ==
    <<"<result>", "<tool_name>", fc_message.tool_call_name, "</tool_name>",
      "<stdout>">> \o fc_message.content \o <<"</stdout>", "</result>">>

\* A plausible slip: the blocks are built last result first.
FcResponsesReversed(function_call_results) ==
    <<"<function_results>">>
        \o Flatten([i \in 1..Len(function_call_results) |->
                        ResultBlock(function_call_results[
                            Len(function_call_results) + 1 - i])])
        \o <<"</function_results>">>

\* fc_responses: the <function_results> envelope of the results, in order.
FcResponses(function_call_results) ==
    <<"<function_results>">>
        \o Flatten([i \in 1..Len(function_call_results) |->
                        ResultBlock(function_call_results[i])])
        \o <<"</function_results>">>

\* ------------------------------------------------------ the streaming parser

\* The locals of response_stream that the loop over the deltas reads and
\* writes, and out: what the delta's iteration yields.
StartOfFeed ==
    [assistant_message_content |-> <<>>, response_is_function_call |-> FALSE,
     tool_calls_in_response |-> 0, is_closing_tool_call |-> FALSE,
     function_call_flag |-> FALSE, out |-> <<>>]

\* A plausible slip: any delta that ends with ">" clears the flag.
FlagAfterEndsWithGt(function_call_flag, stream_delta) ==
    IF stream_delta # <<>> /\ EndsWithGt(stream_delta) THEN FALSE
    ELSE IF stream_delta = FunctionWord THEN TRUE
    ELSE function_call_flag

\* A plausible slip: the delta is searched for "<function", not compared.
FlagAfterSubstring(function_call_flag, stream_delta) ==
    IF stream_delta = Gt THEN FALSE
    ELSE IF Contains(stream_delta, FunctionWord) THEN TRUE
    ELSE function_call_flag

\* function_call_flag after the two tests of the delta: set by a delta that is
\* "<function", cleared by one that is ">".
FlagAfter(function_call_flag, stream_delta) ==
    IF stream_delta = Gt THEN FALSE
    ELSE IF stream_delta = FunctionWord THEN TRUE
    ELSE function_call_flag

\* One iteration of `for stream_delta in stream.text_stream`.
StreamStep(st, stream_delta) ==
    LET content == st.assistant_message_content \o stream_delta
        flag == FlagAfter(st.function_call_flag, stream_delta)
        opens == Count(content, InvokeOpenPrefix)
        closes == Count(content, InvokeClose)
        begins == Contains(stream_delta, InvokeOpenPrefix) /\ opens > closes
        inside == st.response_is_function_call \/ begins
        ends == inside /\ opens = closes
        closing == st.is_closing_tool_call \/ ends
    IN  IF flag
        THEN [st EXCEPT !.assistant_message_content = content,
                        !.function_call_flag = TRUE,
                        !.out = <<>>]
        ELSE [assistant_message_content |-> content,
              function_call_flag |-> FALSE,
              response_is_function_call |-> inside /\ ~ends,
              tool_calls_in_response |->
                  st.tool_calls_in_response + (IF begins THEN 1 ELSE 0),
              is_closing_tool_call |->
                  IF inside /\ ~ends THEN closing
                  ELSE closing /\ ~EndsWithGt(Strip(stream_delta)),
              out |-> IF inside /\ ~ends THEN <<>> ELSE stream_delta]

\* -------------------------------------------------------------------- state

VARIABLES
    mode,                       \* "response" or "response_stream"
    run_tools,                  \* self.run_tools
    show_tool_calls,            \* self.show_tool_calls
    messages,                   \* the message list, shared by every turn
    response_times,             \* self.metrics["response_times"]
    pc,                         \* where the innermost call stands
    backend_calls,              \* invoke / invoke_stream calls made so far
    segs_left,                  \* segments the backend may still emit
    completion,                 \* the text the backend gives in this turn
    feed,                       \* the deltas of stream.text_stream to come
    assistant_message_content,
    response_is_function_call,
    tool_calls_in_response,
    is_closing_tool_call,
    function_call_flag,
    function_calls_to_run,
    extractor_runs,             \* extract_tool_from_xml calls in this turn
    executed,                   \* the functions run, in order
    yielded,                    \* what the innermost response_stream yielded
    final_response,             \* final_response of the pending calls, joined
    returned,                   \* what the outermost response returned
    request                     \* what the last backend call was given

locals ==
    <<assistant_message_content, response_is_function_call,
      tool_calls_in_response, is_closing_tool_call, function_call_flag>>

config == <<mode, run_tools, show_tool_calls>>

vars ==
    <<mode, run_tools, show_tool_calls, messages, response_times, pc,
      backend_calls, segs_left, completion, feed,
      assistant_message_content, response_is_function_call,
      tool_calls_in_response, is_closing_tool_call, function_call_flag,
      function_calls_to_run, extractor_runs, executed, yielded,
      final_response, returned, request>>

\* The caller's list: the system prompt and the user's question.
InitialMessages ==
    <<Message("system", Some(<<"system prompt">>), None),
      Message("user", Some(<<"question">>), None)>>

Init ==
    /\ mode \in {"response", "response_stream"}
    /\ run_tools \in BOOLEAN
    /\ show_tool_calls \in BOOLEAN
    /\ messages = InitialMessages
    /\ response_times = <<>>
    /\ pc = "call"
    /\ backend_calls = 0
    /\ segs_left = MaxSegs
    /\ completion = None
    /\ feed = <<>>
    /\ assistant_message_content = <<>>
    /\ response_is_function_call = FALSE
    /\ tool_calls_in_response = 0
    /\ is_closing_tool_call = FALSE
    /\ function_call_flag = FALSE
    /\ function_calls_to_run = <<>>
    /\ extractor_runs = 0
    /\ executed = <<>>
    /\ yielded = <<>>
    /\ final_response = <<>>
    /\ returned = None
    /\ request = None

\* The parser's locals as one record, and back.
Locals ==
    [assistant_message_content |-> assistant_message_content,
     response_is_function_call |-> response_is_function_call,
     tool_calls_in_response |-> tool_calls_in_response,
     is_closing_tool_call |-> is_closing_tool_call,
     function_call_flag |-> function_call_flag,
     out |-> <<>>]

SetLocals(st) ==
    /\ assistant_message_content' = st.assistant_message_content
    /\ response_is_function_call' = st.response_is_function_call
    /\ tool_calls_in_response' = st.tool_calls_in_response
    /\ is_closing_tool_call' = st.is_closing_tool_call
    /\ function_call_flag' = st.function_call_flag

\* invoke and invoke_stream: the loop over the messages. Each message with
\* role system is assigned to system_message, so the last one stays; with
\* none, system_message is unbound when it is read and the call raises.
IsSystem(m) == m.role = "system"

NotSystem(m) == m.role # "system"

user_assistant_message(msgs) == Select(msgs, NotSystem)

system_message(msgs) ==
    LET found == Select(msgs, IsSystem) IN found[Len(found)]

\* The request the backend is given: the system prompt, and the role and the
\* content of every other message.
Request(msgs) ==
    LET rest == user_assistant_message(msgs)
    IN  IF Select(msgs, IsSystem) = <<>>
        THEN [raised |-> TRUE, system |-> None, messages |-> <<>>]
        ELSE [raised |-> FALSE,
              system |-> system_message(msgs).content,
              messages |-> [i \in 1..Len(rest) |->
                               [role |-> rest[i].role,
                                content |-> rest[i].content]]]

\* -------------------------------------------------------------- operations

\* response: self.invoke(messages) returns a completion whose text is `text`.
Invoke(text, k) ==
    /\ pc = "call"
    /\ mode = "response"
    /\ ~Request(messages).raised
    /\ request' = Some(Request(messages))
    /\ backend_calls' = backend_calls + 1
    /\ segs_left' = segs_left - k
    /\ completion' = text
    /\ pc' = "parse"
    /\ UNCHANGED <<config, messages, response_times, feed, locals,
                   function_calls_to_run, extractor_runs, executed, yielded,
                   final_response, returned>>

\* response_stream: the locals are set and self.invoke_stream(messages) opens
\* a feed whose deltas make up `text`.
InvokeStream(text, k) ==
    /\ pc = "call"
    /\ mode = "response_stream"
    /\ ~Request(messages).raised
    /\ request' = Some(Request(messages))
    /\ backend_calls' = backend_calls + 1
    /\ segs_left' = segs_left - k
    /\ completion' = Some(text)
    /\ feed' = text
    /\ SetLocals(StartOfFeed)
    /\ yielded' = <<>>
    /\ pc' = "feed"
    /\ UNCHANGED <<config, messages, response_times, function_calls_to_run,
                   extractor_runs, executed, final_response, returned>>

\* response_stream: the feed hands over its next delta, the next n pieces.
StreamDelta(n) ==
    /\ pc = "feed"
    /\ n <= Len(feed)
    /\ LET st == StreamStep(Locals, SubSeq(feed, 1, n))
       IN  /\ SetLocals(st)
           /\ yielded' = yielded \o st.out
    /\ feed' = SubSeq(feed, n + 1, Len(feed))
    /\ UNCHANGED <<config, request, messages, response_times, pc, backend_calls,
                   segs_left, completion, function_calls_to_run,
                   extractor_runs, executed, final_response, returned>>

\* A plausible slip: the new messages take the place of the last one.
AppendOverLast(msgs, new) ==
    IF new = <<>> THEN msgs ELSE SubSeq(msgs, 1, Len(msgs) - 1) \o new

\* messages.append, for each of the new messages in turn.
Append_(msgs, new) == msgs \o new

\* A plausible slip: run_tools is not consulted.
DispatchesWhateverRunTools(tool_calls) == tool_calls # None

\* `if assistant_message.tool_calls is not None and self.run_tools`
Dispatches(tool_calls) == tool_calls # None /\ run_tools

\* A plausible slip: the list is made anew at every turn.
RecordTimeAnew(times, elapsed) == <<elapsed>>

\* self.metrics["response_times"].append(response_timer.elapsed), the list
\* being made first when the metrics have none.
RecordTime(times, elapsed) == Append(times, elapsed)

\* What both responders do with the assistant message once its content and
\* tool_calls are known: the metrics, the append, and the loop that resolves
\* the tool calls.
Commit(parse) ==
    LET assistant_message ==
            [Message("assistant", parse.content, parse.tool_calls)
                EXCEPT !.time = Some(backend_calls)]
        dispatch == Dispatches(parse.tool_calls)
        resolved == IF dispatch THEN ResolveAll(parse.tool_calls[1])
                    ELSE [appended |-> <<>>, to_run |-> <<>>]
    IN  /\ response_times' = RecordTime(response_times, backend_calls)
        /\ messages' = Append_(messages, <<assistant_message>> \o resolved.appended)
        /\ function_calls_to_run' = resolved.to_run
        /\ extractor_runs' = parse.runs
        /\ final_response' =
              IF dispatch /\ mode = "response"
              THEN final_response
                       \o remove_function_calls_from_string(parse.content[1])
              ELSE final_response
        /\ pc' = IF dispatch THEN "announce" ELSE "return"

\* response, from the completion to the end of the loop over the tool calls.
ResponseCommit ==
    /\ pc = "parse"
    /\ Commit(ResponseParse(completion))
    /\ UNCHANGED <<config, request, backend_calls, segs_left, completion, feed, locals,
                   executed, yielded, returned>>

\* A plausible slip: the commit does not wait for the end of the feed.
StreamCommitEarly ==
    /\ pc = "feed"
    /\ assistant_message_content' = StreamClose(assistant_message_content)
    /\ Commit(StreamParse(StreamClose(assistant_message_content),
                          tool_calls_in_response))
    /\ UNCHANGED <<config, request, backend_calls, segs_left, completion, feed,
                   response_is_function_call, tool_calls_in_response,
                   is_closing_tool_call, function_call_flag, executed,
                   yielded, returned>>

\* response_stream, from the end of the feed to the end of the loop over the
\* tool calls.
StreamCommit ==
    /\ pc = "feed"
    /\ feed = <<>>
    /\ assistant_message_content' = StreamClose(assistant_message_content)
    /\ Commit(StreamParse(StreamClose(assistant_message_content),
                          tool_calls_in_response))
    /\ UNCHANGED <<config, request, backend_calls, segs_left, completion, feed,
                   response_is_function_call, tool_calls_in_response,
                   is_closing_tool_call, function_call_flag, executed,
                   yielded, returned>>

\* The annotation of the calls about to run: joined to final_response, or
\* yielded.
Announce ==
    /\ pc = "announce"
    /\ final_response' =
          IF show_tool_calls /\ mode = "response"
          THEN final_response \o RunningNote(function_calls_to_run, " - Running: ")
          ELSE final_response
    /\ yielded' =
          IF show_tool_calls /\ mode = "response_stream"
          THEN yielded \o RunningNote(function_calls_to_run, "- Running: ")
          ELSE yielded
    /\ pc' = "run"
    /\ UNCHANGED <<config, request, messages, response_times, backend_calls, segs_left,
                   completion, feed, locals, function_calls_to_run,
                   extractor_runs, executed, returned>>

\* A plausible slip: the results message is appended with no result in it.
ResultMessagesAlways(function_call_results) ==
    <<Message("user", Some(FcResponses(function_call_results)), None)>>

\* A plausible slip: one user message per result.
ResultMessagesEach(function_call_results) ==
    [i \in 1..Len(function_call_results) |->
        Message("user", Some(FcResponses(<<function_call_results[i]>>)), None)]

\* The user message that carries the results, when there is a result.
ResultMessages(function_call_results) ==
    IF Len(function_call_results) > 0
    THEN <<Message("user", Some(FcResponses(function_call_results)), None)>>
    ELSE <<>>

\* The calls are run, their results are appended as one user message, and the
\* responder calls itself on the extended list.
RunTools ==
    /\ pc = "run"
    /\ LET function_call_results == run_function_calls(function_calls_to_run)
       IN  /\ executed' = executed
                  \o [i \in 1..Len(function_calls_to_run) |->
                          function_calls_to_run[i].name]
           /\ messages' = Append_(messages, ResultMessages(function_call_results))
    /\ pc' = "call"
    /\ UNCHANGED <<config, request, response_times, backend_calls, segs_left,
                   completion, feed, locals, function_calls_to_run,
                   extractor_runs, yielded, final_response, returned>>

\* A plausible slip: an absent content is returned as the empty string.
ReturnValueNoFallback(content) ==
    IF content # None THEN content[1] ELSE <<>>

\* What response returns when the turn has no tool call to run: the content
\* of the assistant message, or the fallback when it has none.
ReturnValue(content) ==
    IF content # None THEN content[1] ELSE SomethingWentWrong

\* The turn had no tool call to run: response returns the content, or the
\* fallback, through every pending call; response_stream ends.
Return ==
    /\ pc = "return"
    /\ returned' =
          IF mode = "response"
          THEN Some(final_response
                       \o ReturnValue(messages[Len(messages)].content))
          ELSE returned
    /\ pc' = "done"
    /\ UNCHANGED <<config, request, messages, response_times, backend_calls, segs_left,
                   completion, feed, locals, function_calls_to_run,
                   extractor_runs, executed, yielded, final_response>>

Next ==
    \/ \E k \in 0..segs_left, lead \in Leads :
         \E ss \in [1..k -> Segments] :
            \/ Invoke(Some(Completion(lead, ss)), k)
            \/ InvokeStream(Completion(lead, ss), k)
    \/ Invoke(None, 0)
    \/ \E n \in 1..Len(feed) : StreamDelta(n)
    \/ ResponseCommit
    \/ StreamCommit
    \/ Announce
    \/ RunTools
    \/ Return

Spec == Init /\ [][Next]_vars

\* ---------------------------------------------- invoke on any message list

\* The messages a caller may put in the list it hands over: two system
\* messages that differ, a user message and an assistant message.
GivenMessages ==
    {Message("system", Some(<<"s1">>), None),
     Message("system", Some(<<"s2">>), None),
     Message("user", Some(<<"u">>), None),
     Message("assistant", Some(<<"a">>), None)}

MessageLists == UNION {[1..n -> GivenMessages] : n \in 0..MaxMessages}

InitInvoke ==
    /\ mode \in {"response", "response_stream"}
    /\ run_tools = FALSE
    /\ show_tool_calls = FALSE
    /\ messages \in MessageLists
    /\ response_times = <<>>
    /\ pc = "call"
    /\ backend_calls = 0
    /\ segs_left = 0
    /\ completion = None
    /\ feed = <<>>
    /\ assistant_message_content = <<>>
    /\ response_is_function_call = FALSE
    /\ tool_calls_in_response = 0
    /\ is_closing_tool_call = FALSE
    /\ function_call_flag = FALSE
    /\ function_calls_to_run = <<>>
    /\ extractor_runs = 0
    /\ executed = <<>>
    /\ yielded = <<>>
    /\ final_response = <<>>
    /\ returned = None
    /\ request = None

\* invoke or invoke_stream on a list with no system message: system_message
\* is read unbound and the call raises before the backend is reached.
InvokeRaises ==
    /\ pc = "call"
    /\ Request(messages).raised
    /\ pc' = "raised"
    /\ UNCHANGED <<config, request, messages, response_times, backend_calls,
                   segs_left, completion, feed, locals, function_calls_to_run,
                   extractor_runs, executed, yielded, final_response, returned>>

\* One backend call on the list, by either responder.
NextInvoke ==
    \/ Invoke(Some(<<"a">>), 0)
    \/ InvokeStream(<<"a">>, 0)
    \/ InvokeRaises

SpecInvoke == InitInvoke /\ [][NextInvoke]_vars

\* ------------------------------------------------------------------ claims

\* The delta a step of the feed hands over (the pieces that left the feed).
DeltaTaken == SubSeq(feed, 1, Len(feed) - Len(feed'))

DeltaStep == pc = "feed" /\ pc' = "feed" /\ Len(feed') < Len(feed)

\* The text holds none of the tool-call markers.
NoMarkers(text) ==
    /\ ~Contains(text, FunctionCallsOpen)
    /\ ~Contains(text, InvokeOpenPrefix)
    /\ ~Contains(text, InvokeClose)

\* C1, as claimed: while response_stream feeds a response that holds no
\* tool-call marker, whatever the split into deltas, what it has yielded is
\* the text received so far.
C1_PassthroughAnySplit ==
    (mode = "response_stream" /\ pc = "feed" /\ NoMarkers(completion[1]))
        => yielded = assistant_message_content

\* C1, amended: in a response that holds no tool-call marker, every delta that
\* arrives outside a "<function" window and is not itself "<function" is
\* yielded whole, after the ones before it, and leaves the window closed; so
\* when no delta is exactly "<function", what is yielded is the text received.
C1_PassthroughNoFunctionDelta ==
    [][(/\ DeltaStep
        /\ NoMarkers(completion[1])
        /\ ~function_call_flag
        /\ DeltaTaken # FunctionWord
        /\ yielded = assistant_message_content)
         => (/\ yielded' = yielded \o DeltaTaken
             /\ yielded' = assistant_message_content'
             /\ ~function_call_flag')]_vars

\* C1's case: a response of two words of prose and no marker has been fed to
\* its end, and all of it was yielded.
C1_Witness ==
    /\ mode = "response_stream" /\ pc = "feed" /\ feed = <<>>
    /\ NoMarkers(completion[1])
    /\ Contains(completion[1], <<"a", "a">>)
    /\ yielded = completion[1]
    /\ yielded = assistant_message_content

\* The text is prose, one <function_calls> block holding one invocation, and
\* prose again.
OneBlock(text) ==
    /\ Count(text, FunctionCallsOpen) = 1
    /\ Count(text, InvokeOpenPrefix) = 1
    /\ Count(text, InvokeClose) = 1
    /\ \E b \in Bodies :
          Contains(text, FunctionCallsOpen \o InvokeOpen \o <<b>> \o InvokeClose)
    /\ text[1] = "a"
    /\ text[Len(text)] = "a"

\* Where the block starts (the "<" of <function_calls>) and ends (the ">" of
\* </invoke>).
BlockStart(text) == CHOOSE i \in 1..Len(text) : OccursAt(text, FunctionCallsOpen, i)
BlockEnd(text) == 1 + CHOOSE i \in 1..Len(text) : OccursAt(text, InvokeClose, i)

\* C2, as claimed: in a response of prose, one tool-call block and prose
\* again, a delta made only of pieces of the block is never yielded.
C2_BlockDeltasNeverYielded ==
    [][(/\ DeltaStep
        /\ OneBlock(completion[1])
        /\ BlockStart(completion[1]) <= Len(assistant_message_content) + 1
        /\ Len(assistant_message_content') <= BlockEnd(completion[1]))
         => yielded' = yielded]_vars

\* The detection the one-delta feed of the same text ends with.
WholeTextDetection(text) ==
    IF text = <<>> THEN 0
    ELSE StreamStep(StartOfFeed, text).tool_calls_in_response

\* C3, as claimed: at the end of a feed the tool calls collected are those any
\* other split of the same text gives; the split into one delta is one of them.
C3_SplitIndependentDetection ==
    (mode = "response_stream" /\ pc = "feed" /\ feed = <<>>)
        => StreamParse(StreamClose(assistant_message_content),
                       tool_calls_in_response).tool_calls
             = StreamParse(StreamClose(assistant_message_content),
                           WholeTextDetection(assistant_message_content)).tool_calls

\* The assistant message of the turn in progress: the last one appended.
HasAssistant == \E i \in 1..Len(messages) : messages[i].role = "assistant"

AssistantIndex ==
    CHOOSE i \in 1..Len(messages) :
        /\ messages[i].role = "assistant"
        /\ \A j \in (i + 1)..Len(messages) : messages[j].role # "assistant"

AssistantMessage == messages[AssistantIndex]

\* The turn's responder has just appended its assistant message and resolved
\* its tool calls.
Committed == pc \in {"announce", "return"}

\* The complete text of the turn's response.
ResponseText ==
    IF mode = "response" THEN completion[1] ELSE assistant_message_content

\* <invoke> and </invoke> alternate in the text, an <invoke> first and an
\* </invoke> last: balanced pairs, none inside another.
BalancedPairs(text) ==
    /\ Count(text, InvokeOpen) = Count(text, InvokeClose)
    /\ \A i \in 0..Len(text) :
          Count(SubSeq(text, 1, i), InvokeOpen)
              - Count(SubSeq(text, 1, i), InvokeClose) \in {0, 1}

\* The tool calls of the invocations of the text, in text order.
CallsInTextOrder(text) ==
    LET at == Select([i \in 1..Len(text) |-> i],
                     LAMBDA i : OccursAt(text, InvokeOpen, i))
    IN  [n \in 1..Len(at) |->
            [type |-> "function",
             name |-> IF text[at[n] + 2] \in ToolNames THEN text[at[n] + 2]
                      ELSE NULL]]

\* C4, as claimed: when the complete text of a response holds k balanced
\* <invoke>..</invoke> pairs, the extractor ran k times, and if it never
\* raised the assistant message carries the k calls in text order (none when
\* k = 0).
C4_ExtractionCount ==
    (Committed /\ (mode = "response" => completion # None)
               /\ BalancedPairs(ResponseText))
        => /\ extractor_runs = Count(ResponseText, InvokeOpen)
           /\ ~Contains(ResponseText, <<"BAD">>)
                => AssistantMessage.tool_calls =
                      IF Count(ResponseText, InvokeOpen) = 0 THEN None
                      ELSE Some(CallsInTextOrder(ResponseText))

\* ---- the turn loop

NumAssistant == Cardinality({i \in 1..Len(messages) : messages[i].role = "assistant"})

\* A backend call whose completion is still being read or parsed.
InFlight == IF pc \in {"parse", "feed"} THEN 1 ELSE 0

\* The names of the turn's tool calls, in order.
TurnCallNames ==
    LET calls == AssistantMessage.tool_calls[1]
    IN  [i \in 1..Len(calls) |-> calls[i].name]

\* The calls of the turn have been run and the responder is about to call
\* itself.
AfterTools == pc = "call" /\ backend_calls > 0

IsResultsMessage(m) ==
    m.role = "user" /\ m.content # None /\ Head(m.content[1]) = "<function_results>"

\* Every call of the turn names a registered function whose arguments pass.
AllResolve == \A i \in 1..Len(TurnCallNames) : TurnCallNames[i] \in {"T1", "T2"}

Last(seq, n) == SubSeq(seq, Len(seq) - n + 1, Len(seq))

\* C5: a turn whose k >= 1 tool calls all resolve, with run_tools on, runs all
\* of them in order, appends its assistant message and then one
\* <function_results> message and nothing else, and then makes one backend
\* call, the recursive one; each turn makes one backend call, and a turn with
\* no tool call returns without another.
C5_State ==
    /\ backend_calls = NumAssistant + InFlight
    /\ (AfterTools /\ AllResolve)
          => /\ run_tools
             /\ Len(TurnCallNames) >= 1
             /\ Len(executed) >= Len(TurnCallNames)
             /\ Last(executed, Len(TurnCallNames)) = TurnCallNames
             /\ Len(messages) = AssistantIndex + 1
             /\ IsResultsMessage(messages[Len(messages)])
    /\ pc = "done" => (AssistantMessage.tool_calls = None \/ ~run_tools)

C5_Step ==
    /\ pc = "call" => (backend_calls' = backend_calls + 1 /\ pc' \in {"parse", "feed"})
    /\ pc # "call" => backend_calls' = backend_calls
    /\ (pc \in {"parse", "feed"} /\ pc' \notin {"parse", "feed"}
            /\ AssistantMessage'.tool_calls = None)
          => pc' = "return"
    /\ pc = "return" => pc' = "done"

Resolves(name) == name \in {"T1", "T2"}

ResolvedNames == Select(TurnCallNames, Resolves)

FailureTexts ==
    LET failed == Select(TurnCallNames, LAMBDA n : ~Resolves(n))
    IN  [i \in 1..Len(failed) |->
            IF failed[i] = "TE" THEN ValidationError ELSE CouldNotFind]

\* The pieces of a text that follow the piece `tag`.
After(text, tag) ==
    LET at == Select([i \in 1..Len(text) |-> i], LAMBDA i : text[i] = tag)
    IN  [n \in 1..Len(at) |-> text[at[n] + 1]]

\* The messages the turn appended after its assistant message.
TurnTail == SubSeq(messages, AssistantIndex + 1, Len(messages))

\* C6: once the calls of a turn have run, the turn appended one
\* <function_results> message if a call resolved and none otherwise; it holds
\* one <result> block per call that resolved, in call order, each with the
\* name and the output of its own call, and nothing for the calls that failed.
C6_EnvelopeOrder ==
    AfterTools =>
        LET results == Select(TurnTail, IsResultsMessage)
        IN  IF ResolvedNames = <<>> THEN results = <<>>
            ELSE /\ Len(results) = 1
                 /\ messages[Len(messages)] = results[1]
                 /\ LET text == results[1].content[1]
                    IN  /\ Count(text, <<"<result>">>) = Len(ResolvedNames)
                        /\ Count(text, <<"</result>">>) = Len(ResolvedNames)
                        /\ After(text, "<tool_name>") = ResolvedNames
                        /\ After(text, "<stdout>")
                             = [i \in 1..Len(ResolvedNames) |->
                                    "stdout of " \o ResolvedNames[i]]

\* C6's case: two calls in one turn, T2 before T1; the envelope holds their
\* two blocks in that order.
C6_Witness ==
    /\ AfterTools
    /\ TurnCallNames = <<"T2", "T1">>
    /\ IsResultsMessage(messages[Len(messages)])
    /\ After(messages[Len(messages)].content[1], "<tool_name>") = <<"T2", "T1">>
    /\ Count(messages[Len(messages)].content[1], <<"<result>">>) = 2

\* C6's other case: the first call failed resolution and the envelope holds
\* the block of the second alone.
C6_WitnessFailed ==
    /\ AfterTools
    /\ TurnCallNames = <<"TE", "T2">>
    /\ IsResultsMessage(messages[Len(messages)])
    /\ After(messages[Len(messages)].content[1], "<tool_name>") = <<"T2">>

\* C7: a call whose function is not registered gets the user message "Could
\* not find function to call.", a call that resolves with an error gets the
\* error text as a user message, in call order; neither is put on
\* function_calls_to_run and neither ever runs; the other calls of the turn run.
C7_UnresolvedNeverRun ==
    /\ \A i \in 1..Len(executed) : Resolves(executed[i])
    /\ pc \in {"announce", "run"}
          => /\ [i \in 1..Len(TurnTail) |-> TurnTail[i].content] 
                  = [i \in 1..Len(FailureTexts) |-> Some(FailureTexts[i])]
             /\ \A i \in 1..Len(TurnTail) : TurnTail[i].role = "user"
             /\ [i \in 1..Len(function_calls_to_run) |->
                    function_calls_to_run[i].name] = ResolvedNames
    /\ AfterTools
          => /\ Len(executed) >= Len(ResolvedNames)
             /\ Last(executed, Len(ResolvedNames)) = ResolvedNames
             /\ Len(TurnTail) >= Len(FailureTexts)
             /\ [i \in 1..Len(FailureTexts) |-> TurnTail[i].content]
                  = [i \in 1..Len(FailureTexts) |-> Some(FailureTexts[i])]

\* C7's case: a turn called an unregistered function and then a registered
\* one; the first got the message and did not run, the second ran.
C7_Witness ==
    /\ AfterTools
    /\ backend_calls = 1
    /\ TurnCallNames = <<"TX", "T1">>
    /\ messages[4].content = Some(CouldNotFind)
    /\ executed = <<"T1">>

\* C7's other case: the call resolved with an error, its text was appended and
\* nothing ran.
C7_WitnessError ==
    /\ AfterTools
    /\ TurnCallNames = <<"TE">>
    /\ messages[Len(messages)].content = Some(ValidationError)
    /\ executed = <<>>

\* C8: when the completion of a turn of response has content without
\* "<function_calls>", the turn resolves and runs nothing and does not call
\* itself; it appends one assistant message, the content as it came and no
\* tool_calls, and returns that content; as the first turn, that is one
\* backend call and the content returned verbatim.
C8_PlainCompletion ==
    (/\ mode = "response"
     /\ pc # "call"
     /\ completion # None
     /\ ~Contains(completion[1], FunctionCallsOpen))
        => /\ pc \in {"parse", "return", "done"}
           /\ function_calls_to_run = <<>> \/ backend_calls > 1
           /\ pc \in {"return", "done"}
                => /\ messages[Len(messages)].role = "assistant"
                   /\ messages[Len(messages)].content = completion
                   /\ messages[Len(messages)].tool_calls = None
                   /\ backend_calls = NumAssistant
           /\ pc = "done" => returned = Some(final_response \o completion[1])
           /\ backend_calls = 1
                => /\ executed = <<>>
                   /\ final_response = <<>>
                   /\ pc \in {"return", "done"}
                        => SubSeq(messages, 1, Len(messages) - 1) = InitialMessages
                   /\ pc = "done" => returned = completion

\* C8's case: the first completion was prose, and response returned it.
C8_Witness ==
    /\ mode = "response" /\ pc = "done"
    /\ backend_calls = 1
    /\ completion = Some(<<"a", "a">>)
    /\ returned = Some(<<"a", "a">>)
    /\ Len(messages) = 3

\* Assistant messages that carry tool calls.
NumToolCallTurns ==
    Cardinality({i \in 1..Len(messages) :
                    messages[i].role = "assistant" /\ messages[i].tool_calls # None})

\* C9: a turn is followed by a recursive call exactly when its assistant
\* message has tool_calls and run_tools is on, whether or not a call resolved;
\* nothing else stops or bounds the recursion (the call is made whatever the
\* number of calls before it); when the loop has ended the last turn had no
\* tool call to run and the backend calls are one more than the turns that ran
\* tool calls.
C9_State ==
    /\ pc \in {"announce", "run"} => (AssistantMessage.tool_calls # None /\ run_tools)
    /\ AfterTools => (AssistantMessage.tool_calls # None /\ run_tools)
    /\ pc = "return" => (AssistantMessage.tool_calls = None \/ ~run_tools)
    /\ pc = "call" => ENABLED (Invoke(Some(<<>>), 0) \/ InvokeStream(<<>>, 0))
    /\ pc = "done"
          => /\ AssistantMessage.tool_calls = None \/ ~run_tools
             /\ backend_calls = 1 + (IF run_tools THEN NumToolCallTurns ELSE 0)

C9_Step ==
    /\ (pc \in {"parse", "feed"} /\ pc' \notin {"parse", "feed"})
          => /\ pc' \in {"announce", "return"}
             /\ pc' = "announce" <=> (AssistantMessage'.tool_calls # None /\ run_tools)
    /\ pc = "announce" => pc' = "run"
    /\ pc = "run" => (pc' = "call" /\ backend_calls' = backend_calls)
    /\ pc = "call" => backend_calls' = backend_calls + 1
    /\ pc = "return" => (pc' = "done" /\ backend_calls' = backend_calls)

C9_RecursionIffToolCalls == [](C9_State) /\ [][C9_Step]_vars

\* C9's case: every call of the first turn failed resolution, nothing ran, and
\* the responder still called itself; the second turn had no tool call and the
\* loop ended after two backend calls.
C9_Witness ==
    /\ pc = "done"
    /\ run_tools
    /\ backend_calls = 2
    /\ messages[3].tool_calls # None
    /\ executed = <<>>

\* The extractor raised on a fragment of the turn's response.
ParseRaised ==
    IF mode = "response"
    THEN completion # None /\ ResponseParse(completion).raised
    ELSE StreamParse(assistant_message_content, tool_calls_in_response).raised

\* The functions the turns so far have run, read off the message list.
RECURSIVE RunByMessages(_)
RunByMessages(msgs) ==
    IF msgs = <<>> THEN <<>>
    ELSE LET m == msgs[Len(msgs)]
             before == RunByMessages(SubSeq(msgs, 1, Len(msgs) - 1))
         IN  IF m.role = "assistant" /\ m.tool_calls # None /\ run_tools
             THEN before \o Select([i \in 1..Len(m.tool_calls[1]) |->
                                        m.tool_calls[1][i].name], Resolves)
             ELSE before

\* C10: when the extractor raises on a fragment of a response, the turn still
\* appends its assistant message, with tool_calls null and its time set, still
\* records the time, resolves and runs nothing and does not call itself;
\* response returns the assistant message's content.
C10_ParseFailureNotFatal ==
    ((pc \in {"announce", "run", "return", "done"} \/ AfterTools) /\ ParseRaised)
        => /\ pc \in {"return", "done"}
           /\ messages[Len(messages)].role = "assistant"
           /\ messages[Len(messages)].tool_calls = None
           /\ messages[Len(messages)].content # None
           /\ messages[Len(messages)].time = Some(backend_calls)
           /\ Len(response_times) = backend_calls
           /\ response_times[Len(response_times)] = backend_calls
           /\ function_calls_to_run = <<>>
           /\ executed = RunByMessages(messages)
           /\ (mode = "response" /\ pc = "done")
                => returned = Some(final_response
                                     \o messages[Len(messages)].content[1])

\* C10's case: the extractor parsed the first invocation and raised on the
\* second; response returned the content and nothing ran.
C10_Witness ==
    /\ mode = "response" /\ pc = "done"
    /\ ParseRaised
    /\ extractor_runs = 2
    /\ executed = <<>>
    /\ messages[Len(messages)].tool_calls = None
    /\ returned = Some(completion[1] \o FunctionCallsClose)

\* C10 in response_stream: the same, at the end of the generator.
C10_WitnessStream ==
    /\ mode = "response_stream" /\ pc = "done"
    /\ ParseRaised
    /\ extractor_runs = 2
    /\ messages[Len(messages)].tool_calls = None

\* C11: when the completion of a turn of response has no text, the assistant
\* message of the turn is appended with no content and no tool calls, the
\* elapsed time is recorded, no tool runs and no further backend call is made,
\* and the call returns "Something went wrong, please try again." (after
\* whatever the earlier turns of the same call put in front of it).
C11_AbsentContentFallback ==
    (mode = "response" /\ backend_calls > 0 /\ completion = None)
        => /\ pc \in {"parse", "return", "done"}
           /\ pc \in {"return", "done"}
                 => /\ messages[Len(messages)].role = "assistant"
                    /\ messages[Len(messages)].content = None
                    /\ messages[Len(messages)].tool_calls = None
                    /\ messages[Len(messages)].time = Some(backend_calls)
                    /\ Len(response_times) = backend_calls
                    /\ response_times[backend_calls] = backend_calls
                    /\ function_calls_to_run = <<>>
           /\ pc = "done"
                 => /\ returned = Some(final_response \o SomethingWentWrong)
                    /\ backend_calls = 1 => returned = Some(SomethingWentWrong)

\* C11's case: the first completion had no text and response has returned
\* the fallback.
C11_Witness ==
    /\ mode = "response" /\ pc = "done"
    /\ backend_calls = 1 /\ completion = None
    /\ returned = Some(SomethingWentWrong)
    /\ Len(messages) = Len(InitialMessages) + 1

\* C11's other case: the completion of the recursive call had no text.
C11_WitnessRecursive ==
    /\ mode = "response" /\ pc = "done"
    /\ backend_calls = 2 /\ completion = None
    /\ executed # <<>>

\* The content of the first message with role system.
FirstSystemContent(msgs) ==
    msgs[CHOOSE i \in 1..Len(msgs) :
            /\ msgs[i].role = "system"
            /\ \A j \in 1..(i - 1) : msgs[j].role # "system"].content

\* The role and the content of the messages whose role is not system, in the
\* order of the list.
NonSystemInOrder(msgs) ==
    LET at == Select([i \in 1..Len(msgs) |-> i],
                     LAMBDA i : msgs[i].role # "system")
    IN  [n \in 1..Len(at) |->
            [role |-> msgs[at[n]].role, content |-> msgs[at[n]].content]]

\* C12, as claimed: the backend is given every non-system message in the
\* order of the list, and as the system prompt the content of the first
\* message with role system.
C12_FirstSystemMessage ==
    (pc \in {"parse", "feed"} /\ request # None)
        => /\ request[1].messages = NonSystemInOrder(messages)
           /\ request[1].system = FirstSystemContent(messages)

\* What the code does: the system prompt is the content of the last message
\* with role system.
C12_LastSystemMessage ==
    (pc \in {"parse", "feed"} /\ request # None)
        => /\ request[1].messages = NonSystemInOrder(messages)
           /\ \E i \in 1..Len(messages) :
                 /\ messages[i].role = "system"
                 /\ \A j \in (i + 1)..Len(messages) : messages[j].role # "system"
                 /\ request[1].system = messages[i].content

\* C13: every step of response and response_stream leaves the messages that
\* are in the list where they are and as they are (role, content, tool_calls
\* and metrics), and only adds messages after them.
C13_AppendOnly ==
    [][/\ Len(messages') >= Len(messages)
       /\ SubSeq(messages', 1, Len(messages)) = messages]_vars

\* C13's case: two turns have appended an assistant message with tool calls,
\* a failure message, a results message and a second assistant message after
\* the messages the caller gave.
C13_Witness ==
    /\ pc = "done" /\ backend_calls = 2
    /\ Len(messages) = Len(InitialMessages) + 4
    /\ SubSeq(messages, 1, Len(InitialMessages)) = InitialMessages
    /\ messages[Len(InitialMessages) + 1].tool_calls # None
    /\ messages[Len(InitialMessages) + 2].content = Some(CouldNotFind)
    /\ IsResultsMessage(messages[Len(InitialMessages) + 3])
    /\ messages[Len(messages)].role = "assistant"

\* The assistant messages of the list that carry tool calls.
WithToolCalls ==
    {i \in 1..Len(messages) :
        messages[i].role = "assistant" /\ messages[i].tool_calls # None}

\* Every tool call of the message comes from an invocation that is closed.
InvocationsClosed(m) ==
    Count(m.content[1], InvokeClose) >= Len(m.tool_calls[1])

\* C14, as claimed: an assistant message with tool calls has a content, the
\* content holds a </invoke> for every invocation that gave a tool call, and
\* it holds the closing </function_calls>.
C14_ClosedMarkupAtDispatch ==
    \A i \in WithToolCalls :
        /\ messages[i].content # None
        /\ InvocationsClosed(messages[i])
        /\ Contains(messages[i].content[1], FunctionCallsClose)

\* What holds of response: the content ends with </function_calls>, closed
\* invocations or not.
C14_ResponseClosesBlock ==
    mode = "response"
        => \A i \in WithToolCalls :
              /\ messages[i].content # None
              /\ Contains(messages[i].content[1], FunctionCallsClose)

\* What holds of response_stream: every tool call comes from a closed
\* invocation, closing </function_calls> or not.
C14_StreamInvocationsClosed ==
    mode = "response_stream"
        => \A i \in WithToolCalls :
              /\ messages[i].content # None
              /\ InvocationsClosed(messages[i])

\* C15, as claimed: a fragment for which the extractor gives no tool name
\* adds no tool call to the assistant message.
C15_AbsentNameSkipped ==
    \A i \in WithToolCalls :
        \A n \in 1..Len(messages[i].tool_calls[1]) :
            messages[i].tool_calls[1][n].name # NULL

\* What holds: the fragments after it are still extracted, and the turn goes
\* on to dispatch; the nameless call fails resolution there.
C15_AbsentNameKept ==
    (Committed /\ HasAssistant /\ AssistantMessage.tool_calls # None
        /\ run_tools)
        => /\ pc = "announce"
           /\ Len(function_calls_to_run)
                 = Len(Select(AssistantMessage.tool_calls[1],
                              LAMBDA t : t.name \in {"T1", "T2"}))

\* The step takes the delta on which suppression clears: the count of
\* </invoke> comes level with the count of <invoke.
SuppressionClears ==
    /\ DeltaStep
    /\ response_is_function_call
    /\ ~response_is_function_call'

\* C16, as claimed: the delta on which suppression clears is not yielded when
\* its trimmed text ends with ">".
C16_ClosingDeltaNotYielded ==
    [][(SuppressionClears /\ EndsWithGt(Strip(DeltaTaken)))
          => yielded' = yielded]_vars

\* What the code does: the delta on which suppression clears is yielded,
\* whatever it ends with, and so is every delta outside an invocation and
\* outside a "<function" window.
C16_ClosingDeltaYielded ==
    [][((DeltaStep /\ ~response_is_function_call' /\ ~function_call_flag')
          => yielded' = yielded \o DeltaTaken)]_vars

\* C17: while response_stream takes the feed, the accumulated text is the
\* deltas received so far, yielded or not; once the feed has ended, the
\* content of the assistant message is the whole text, followed by
\* </function_calls> exactly when the text holds <function_calls> once.
C17_AccumulatedBuffer ==
    mode = "response_stream"
        => /\ pc = "feed" => assistant_message_content \o feed = completion[1]
           /\ (backend_calls > 0 /\ pc # "feed")
                 => AssistantMessage.content =
                       Some(IF Count(completion[1], FunctionCallsOpen) = 1
                            THEN completion[1] \o FunctionCallsClose
                            ELSE completion[1])

\* C17's case: the text held <function_calls> once and an invocation whose
\* deltas were not all yielded; the content is the whole text and the closing
\* tag.
C17_Witness ==
    /\ mode = "response_stream" /\ pc \in {"announce", "return"}
    /\ Count(completion[1], FunctionCallsOpen) = 1
    /\ Count(completion[1], InvokeClose) = 1
    /\ Len(yielded) < Len(completion[1])
    /\ AssistantMessage.content = Some(completion[1] \o FunctionCallsClose)

\* C17's other cases: the text held <function_calls> twice, or not at all
\* though it held an invocation, and nothing was added.
C17_WitnessTwice ==
    /\ mode = "response_stream" /\ pc \in {"announce", "return"}
    /\ Count(completion[1], FunctionCallsOpen) = 2
    /\ AssistantMessage.content = completion

C17_WitnessNone ==
    /\ mode = "response_stream" /\ pc \in {"announce", "return"}
    /\ Count(completion[1], FunctionCallsOpen) = 0
    /\ Count(completion[1], InvokeClose) = 1
    /\ AssistantMessage.content = completion

\* The parse state the window leaves alone.
ParseState ==
    <<response_is_function_call, tool_calls_in_response, is_closing_tool_call>>

\* C18: a delta that is "<function" opens the window; in the window only a
\* delta that is ">" closes it; and a delta after which the window is open
\* (the "<function" itself and every delta of the window but the closing ">")
\* is not yielded and changes nothing but the accumulated text, so an
\* invocation inside the window is not counted.
C18_TagNameWindow ==
    [][DeltaStep
         => /\ DeltaTaken = FunctionWord => function_call_flag'
            /\ (function_call_flag /\ DeltaTaken # Gt) => function_call_flag'
            /\ DeltaTaken = Gt => ~function_call_flag'
            /\ function_call_flag'
                  => /\ yielded' = yielded
                     /\ ParseState' = ParseState
                     /\ assistant_message_content'
                           = assistant_message_content \o DeltaTaken]_vars

\* C18's case: the window opened and no delta was ">", so the feed ended in
\* the window: a whole invocation went by in it, none was counted and
\* nothing of it was yielded.
C18_Witness ==
    /\ mode = "response_stream" /\ pc = "feed" /\ feed = <<>>
    /\ function_call_flag
    /\ Count(assistant_message_content, InvokeOpen) = 1
    /\ Count(assistant_message_content, InvokeClose) = 1
    /\ tool_calls_in_response = 0
    /\ ~Contains(yielded, InvokeOpenPrefix)
    /\ ~Contains(yielded, InvokeClose)

\* C18's other case: the window was opened by "<function" and closed by ">";
\* of <function_calls> only the ">" was yielded.
C18_WitnessClosed ==
    /\ mode = "response_stream" /\ pc = "feed"
    /\ ~function_call_flag
    /\ assistant_message_content = <<"a">> \o FunctionCallsOpen
    /\ yielded = <<"a", ">">>

\* C19: while response_stream is in the feed of a turn, nothing of that turn
\* is in the message list or in the metrics, and a step taken while deltas
\* remain changes neither those nor the functions run; so a consumer that
\* stops there leaves them as they were at the start of the turn. The next
\* backend call is made only after the feed has ended and the annotations have
\* been yielded, so the chunks of a turn come before those of the next.
C19_State ==
    (mode = "response_stream" /\ pc = "feed")
        => /\ Len(response_times) = backend_calls - 1
           /\ NumAssistant = backend_calls - 1
           /\ messages[Len(messages)].role = "user"

C19_Step ==
    mode = "response_stream"
        => /\ (pc = "feed" /\ feed # <<>>)
                 => /\ messages' = messages
                    /\ response_times' = response_times
                    /\ executed' = executed
                    /\ pc' = "feed"
           /\ yielded' # yielded => pc \in {"call", "feed", "announce"}
           /\ pc = "announce" => (feed = <<>> /\ pc' = "run")
           /\ pc = "run" => (yielded' = yielded /\ pc' = "call")
           /\ backend_calls' # backend_calls => (pc = "call" /\ feed = <<>>)

C19_StreamingCommitPoint == [](C19_State) /\ [][C19_Step]_vars

\* C19's case: the second turn is in its feed, a delta of it has been yielded
\* and others remain; the list and the metrics hold the first turn only.
C19_Witness ==
    /\ mode = "response_stream" /\ pc = "feed"
    /\ backend_calls = 2
    /\ feed # <<>> /\ yielded # <<>>
    /\ executed # <<>>
    /\ Len(response_times) = 1
    /\ IsResultsMessage(messages[Len(messages)])

\* The assistant messages of the list, in order.
AssistantMessages == Select(messages, LAMBDA m : m.role = "assistant")

\* C20: response_times holds one entry per turn committed, in turn order, and
\* the k-th assistant message carries the k-th entry as its time; a step
\* either leaves the sequence as it is or adds one entry at its end, and it
\* adds one exactly when it appends the assistant message of a turn; when the
\* call has ended after r turns that ran tool calls, r + 1 entries were added.
C20_State ==
    /\ Len(response_times) = Len(AssistantMessages)
    /\ \A k \in 1..Len(AssistantMessages) :
          AssistantMessages[k].time = Some(response_times[k])
    /\ Len(response_times) = backend_calls - InFlight
    /\ pc = "done"
          => Len(response_times)
                = 1 + (IF run_tools THEN NumToolCallTurns ELSE 0)

C20_Step ==
    /\ \/ response_times' = response_times
       \/ /\ Len(response_times') = Len(response_times) + 1
          /\ SubSeq(response_times', 1, Len(response_times)) = response_times
    /\ response_times' # response_times
          <=> (pc \in {"parse", "feed"} /\ pc' \notin {"parse", "feed"})

C20_MetricsAccumulation == [](C20_State) /\ [][C20_Step]_vars

\* C20's case: two turns ran a tool call and the third returned; the
\* sequence holds three entries, those of the three turns in order.
C20_Witness ==
    /\ pc = "done" /\ run_tools
    /\ NumToolCallTurns = 2
    /\ Len(response_times) = 3
    /\ \A k \in 1..3 : AssistantMessages[k].time = Some(response_times[k])
    /\ response_times[1] # response_times[2]

\* C20's other case: the turn whose parse failed recorded its time too.
C20_WitnessParseFailure ==
    /\ pc = "return" /\ ParseRaised
    /\ Len(response_times) = backend_calls
    /\ AssistantMessage.time = Some(response_times[backend_calls])

\* C21, as claimed: the assistant message response_stream appends for a text,
\* however it was split into deltas, has the content and the tool calls of
\* the one response appends for the same text; the two responders treat the
\* message alike from there on, so the lists, the functions run and the
\* backend calls are the same.
C21_SameAssistantMessage ==
    (mode = "response_stream" /\ Committed)
        => /\ AssistantMessage.content = ResponseParse(completion).content
           /\ AssistantMessage.tool_calls = ResponseParse(completion).tool_calls

\* C21, as claimed, for the feeds in which response_stream counted every
\* invocation of the text, so that the split is not what tells the two
\* responders apart.
C21_SameToolCallsWhenDetected ==
    (mode = "response_stream" /\ Committed
        /\ tool_calls_in_response = Count(completion[1], InvokeOpenPrefix))
        => AssistantMessage.tool_calls = ResponseParse(completion).tool_calls

\* What holds: the contents are the same but for the closing tag, which
\* response adds when the text holds <function_calls> and response_stream
\* when it holds it exactly once.
C21_SameContentButClosingTag ==
    (mode = "response_stream" /\ Committed)
        => \/ AssistantMessage.content = ResponseParse(completion).content
           \/ /\ Count(completion[1], FunctionCallsOpen) >= 2
              /\ AssistantMessage.content = completion
              /\ ResponseParse(completion).content
                    = Some(completion[1] \o FunctionCallsClose)

\* Where the assistant messages are, and where the one after the i-th message
\* is (past the end of the list when there is none).
AssistantAt == {i \in 1..Len(messages) : messages[i].role = "assistant"}

NextAssistant(i) ==
    IF \E j \in AssistantAt : j > i
    THEN CHOOSE j \in AssistantAt :
            j > i /\ \A h \in AssistantAt : h > i => j <= h
    ELSE Len(messages) + 1

\* The names of the calls the turn of the i-th message dispatched.
DispatchedAt(i) ==
    IF messages[i].tool_calls # None /\ run_tools
    THEN [n \in 1..Len(messages[i].tool_calls[1]) |->
             messages[i].tool_calls[1][n].name]
    ELSE <<>>

\* The turn of the i-th message has run its calls.
TurnRan(i) == NextAssistant(i) <= Len(messages) \/ pc \in {"call", "parse", "feed"}

\* What the failure of the call named n is answered with.
FailureText(n) == IF n = "TE" THEN ValidationError ELSE CouldNotFind

\* C22: after each assistant message and before the next one the list holds
\* one user message per dispatched call that failed resolution, in call
\* order, and after them, once the calls have run, one <function_results>
\* message exactly when a call resolved, naming the resolved calls in call
\* order; the functions run are those of the turns whose assistant message is
\* in the list.
C22_TurnMessageOrder ==
    /\ \A i \in AssistantAt :
          LET names == DispatchedAt(i)
              failed == Select(names, LAMBDA n : ~Resolves(n))
              ran == IF TurnRan(i) THEN Select(names, Resolves) ELSE <<>>
              tail == SubSeq(messages, i + 1, NextAssistant(i) - 1)
          IN  /\ Len(tail) = Len(failed) + (IF ran # <<>> THEN 1 ELSE 0)
              /\ \A n \in 1..Len(failed) :
                    /\ tail[n].role = "user"
                    /\ tail[n].content = Some(FailureText(failed[n]))
              /\ ran # <<>>
                    => /\ IsResultsMessage(tail[Len(tail)])
                       /\ After(tail[Len(tail)].content[1], "<tool_name>") = ran
    /\ executed =
          RunByMessages(IF pc \in {"announce", "run"}
                        THEN SubSeq(messages, 1, AssistantIndex - 1)
                        ELSE messages)

\* C22's case: the text called T1 and then an unknown function; the failure
\* message of the second call stands before the results of the first, and the
\* assistant message of the next turn after both.
C22_Witness ==
    /\ pc = "done" /\ backend_calls = 2
    /\ Len(messages) = Len(InitialMessages) + 4
    /\ DispatchedAt(Len(InitialMessages) + 1) = <<"T1", "TX">>
    /\ messages[Len(InitialMessages) + 2].content = Some(CouldNotFind)
    /\ IsResultsMessage(messages[Len(InitialMessages) + 3])
    /\ messages[Len(InitialMessages) + 4].role = "assistant"
    /\ executed = <<"T1">>

\* C22's other case: every call of the turn failed, and no results message
\* stands between the failure messages and the next assistant message.
C22_WitnessNoResults ==
    /\ pc = "done" /\ backend_calls = 2
    /\ DispatchedAt(Len(InitialMessages) + 1) = <<"TX", "TE">>
    /\ Len(messages) = Len(InitialMessages) + 4
    /\ messages[Len(messages)].role = "assistant"
    /\ executed = <<>>

\* The <invoke opens of the accumulated text that no </invoke> has closed.
OpenInvocations ==
    Count(assistant_message_content, InvokeOpenPrefix)
        - Count(assistant_message_content, InvokeClose)

\* C23, as claimed: after every delta of a feed the accumulated text holds as
\* many <invoke as </invoke>, or one more.
C23_OpenCloseBalance ==
    (mode = "response_stream" /\ pc = "feed") => OpenInvocations \in {0, 1}

\* What holds: the closes never outnumber the opens in the texts of Segments,
\* and nothing in the loop bounds the opens: it counts and compares them.
C23_NoCloseWithoutOpen ==
    (mode = "response_stream" /\ pc = "feed") => OpenInvocations >= 0

\* A state the feed reaches: two invocations were opened and one close
\* followed; the counts did not come level and the parser is still in the
\* invocation at the end of the feed.
C23_TwoOpenAtEnd ==
    /\ mode = "response_stream" /\ pc = "feed" /\ feed = <<>>
    /\ OpenInvocations = 1
    /\ Count(assistant_message_content, InvokeClose) = 1
    /\ tool_calls_in_response = 2
    /\ response_is_function_call

====
